---- MODULE Spec2Model ----
(***************************************************************************)
(* A model of chatbot.py: the NewsChatbot class (construction, get_news,   *)
(* process_query) and the interaction loop of main().                      *)
(*                                                                         *)
(* Text is modelled character by character (a string is a sequence of      *)
(* one-character strings) so that the substring tests, lower() and strip() *)
(* of the code are computed, not assumed.  The two collaborators, the      *)
(* spaCy entity extractor and the NewsAPI client, are nondeterministic:    *)
(* the extractor returns any bounded list of labelled spans of the input,  *)
(* the client raises or returns any of a bounded set of JSON bodies.       *)
(***************************************************************************)
EXTENDS Integers, Sequences, FiniteSets, TLC

(***************************************************************************)
(* Bounds of the model.                                                    *)
(***************************************************************************)
MaxWords == 2      \* fragments concatenated into one input line
MaxEnts == 2       \* entities returned by the extractor for one input
MaxArticles == 6   \* articles in one response of the news service

(***************************************************************************)
(* Text primitives: str.lower, str.strip, the `in` substring operator.     *)
(***************************************************************************)
\* the lowercase of each capital letter
ToLower ==
    [A |-> "a", B |-> "b", C |-> "c", D |-> "d", E |-> "e", F |-> "f", G |-> "g",
     H |-> "h", I |-> "i", J |-> "j", K |-> "k", L |-> "l", M |-> "m", N |-> "n",
     O |-> "o", P |-> "p", Q |-> "q", R |-> "r", S |-> "s", T |-> "t", U |-> "u",
     V |-> "v", W |-> "w", X |-> "x", Y |-> "y", Z |-> "z"]

LowerChar(c) == IF c \in DOMAIN ToLower THEN ToLower[c] ELSE c

RECURSIVE lower(_)
lower(s) == IF s = <<>> THEN <<>> ELSE <<LowerChar(Head(s))>> \o lower(Tail(s))

Whitespace == {" ", "\t"}

RECURSIVE lstrip(_)
lstrip(s) ==
    IF s # <<>> /\ Head(s) \in Whitespace THEN lstrip(Tail(s)) ELSE s

RECURSIVE rstrip(_)
rstrip(s) ==
    IF s # <<>> /\ s[Len(s)] \in Whitespace
    THEN rstrip(SubSeq(s, 1, Len(s) - 1))
    ELSE s

strip(s) == rstrip(lstrip(s))

\* Python's `sub in s` for strings
Contains(s, sub) ==
    \E i \in 0..(Len(s) - Len(sub)) : SubSeq(s, i + 1, i + Len(sub)) = sub

\* any(word in s for word in words)
AnyIn(words, s) == \E i \in 1..Len(words) : Contains(s, words[i])

\* Python's None, kept apart from the empty string
None == <<"None">>

\* Python truthiness of an optional string
Truthy(x) == x # None /\ x # <<>>

\* a slice that forgets its limit
Take_all(s, n) == s

\* s[:n]
Take(s, n) == SubSeq(s, 1, IF Len(s) < n THEN Len(s) ELSE n)

(***************************************************************************)
(* The words of the program, spelled out as character sequences.           *)
(***************************************************************************)
w_news == <<"n","e","w","s">>
w_headlines == <<"h","e","a","d","l","i","n","e","s">>
w_latest == <<"l","a","t","e","s","t">>
w_updates == <<"u","p","d","a","t","e","s">>

w_business == <<"b","u","s","i","n","e","s","s">>
w_entertainment == <<"e","n","t","e","r","t","a","i","n","m","e","n","t">>
w_health == <<"h","e","a","l","t","h">>
w_science == <<"s","c","i","e","n","c","e">>
w_sports == <<"s","p","o","r","t","s">>
w_technology == <<"t","e","c","h","n","o","l","o","g","y">>

w_hello == <<"h","e","l","l","o">>
w_hi == <<"h","i">>
w_hey == <<"h","e","y">>
w_bye == <<"b","y","e">>
w_goodbye == <<"g","o","o","d","b","y","e">>
w_see_you == <<"s","e","e"," ","y","o","u">>
w_thanks == <<"t","h","a","n","k","s">>
w_thank_you == <<"t","h","a","n","k"," ","y","o","u">>
w_appreciate == <<"a","p","p","r","e","c","i","a","t","e">>

w_quit == <<"q","u","i","t">>

\* the literal keyword lists of process_query
NewsTriggers == <<w_news, w_headlines, w_latest, w_updates>>
GreetingWords == <<w_hello, w_hi, w_hey>>
GoodbyeWords == <<w_bye, w_goodbye, w_see_you>>
ThanksWords == <<w_thanks, w_thank_you, w_appreciate>>

\* entity labels that make a topic
TopicLabels == {"ORG", "GPE", "PERSON"}

(***************************************************************************)
(* NewsChatbot.__init__                                                    *)
(***************************************************************************)
PlaceholderKey == "your_news_api_key_here"

\* self.categories: the keys, in insertion order
Categories ==
    <<w_business, w_entertainment, w_health, w_science, w_sports, w_technology>>

Responses ==
    [greeting |->
        <<"Hello! I'm your news assistant. What would you like to know about?",
          "Hi there! I can help you stay updated with the latest news. What interests you?",
          "Hey! Ready to explore the latest news? What would you like to know?">>,
     goodbye |->
        <<"Goodbye! Stay informed!",
          "See you later! Keep up with the news!",
          "Take care! Come back for more news updates!">>,
     thanks |->
        <<"You're welcome! Let me know if you need more news updates!",
          "No problem! Feel free to ask for more news anytime!",
          "Glad I could help! Stay tuned for more news!">>,
     default |->
        <<"I'm not sure about that. Would you like to know about the latest news instead?",
          "I'm focused on delivering news. Would you like to know about current events?",
          "I can help you with the latest news. What would you like to know?">>]

\* os.getenv('NEWS_API_KEY') is None when the variable is unset
NoKey == "<unset>"

\* the values of NEWS_API_KEY the model starts from
ApiKeys == {NoKey, "", PlaceholderKey, "0123456789abcdef"}

NoClient == [client |-> FALSE]

NewsApiClient(api_key) == [client |-> TRUE, api_key |-> api_key]

Unconstructed == [constructed |-> FALSE]

\* a constructor that takes the placeholder for a key
NewsChatbot_init_keeps_placeholder(model_loads, api_key) ==
    IF ~model_loads
    THEN [ok |-> FALSE, warned |-> FALSE, self |-> Unconstructed]
    ELSE LET missing == api_key = NoKey \/ api_key = ""
         IN [ok |-> TRUE,
             warned |-> missing,
             self |-> [constructed |-> TRUE,
                       news_api |-> IF missing THEN NoClient
                                    ELSE NewsApiClient(api_key),
                       categories |-> Categories,
                       responses |-> Responses]]

\* the constructor; model_loads is whether spacy.load succeeds
NewsChatbot_init(model_loads, api_key) ==
    IF ~model_loads
    THEN [ok |-> FALSE, warned |-> FALSE, self |-> Unconstructed]
    ELSE LET missing ==
                 api_key = NoKey \/ api_key = "" \/ api_key = PlaceholderKey
         IN [ok |-> TRUE,
             warned |-> missing,
             self |-> [constructed |-> TRUE,
                       news_api |-> IF missing THEN NoClient
                                    ELSE NewsApiClient(api_key),
                       categories |-> Categories,
                       responses |-> Responses]]

(***************************************************************************)
(* The news service: what a call of the client can produce.                *)
(***************************************************************************)
NoneTimestamp == "<None>"

\* an article as the service sends it; variant selects the description
\*   1: a description   2: an empty description   3: no description key
\*   4: a null description
Article(i, variant) ==
    LET base == [title |-> <<"Title", i>>,
                 url |-> <<"https://example.com/", i>>,
                 source |-> [id |-> None, name |-> <<"Source", i>>],
                 publishedAt |-> IF i % 3 = 0 THEN "2024-01-05T10:00:00Z"
                                 ELSE IF i % 3 = 1 THEN "2023-12-31T23:59:59+00:00"
                                 ELSE "2024-02-29"]
    IN CASE variant = 1 -> base @@ [description |-> <<"Description", i>>]
         [] variant = 2 -> base @@ [description |-> <<>>]
         [] variant = 3 -> base
         [] OTHER -> base @@ [description |-> None]

Without(a, key) == [k \in (DOMAIN a) \ {key} |-> a[k]]

BadKinds ==
    {"no_title", "no_publishedAt", "bad_timestamp", "none_timestamp",
     "no_source", "no_source_name", "no_url"}

\* an article that makes the formatting loop raise
BadArticle(i, kind) ==
    LET a == Article(i, 1)
    IN CASE kind = "no_title" -> Without(a, "title")
         [] kind = "no_publishedAt" -> Without(a, "publishedAt")
         [] kind = "bad_timestamp" -> [a EXCEPT !.publishedAt = "yesterday-ish"]
         [] kind = "none_timestamp" -> [a EXCEPT !.publishedAt = NoneTimestamp]
         [] kind = "no_source" -> Without(a, "source")
         [] kind = "no_source_name" -> [a EXCEPT !.source = [id |-> None]]
         [] OTHER -> Without(a, "url")

GoodArticles(n, offset) == [i \in 1..n |-> Article(i, ((i + offset) % 4) + 1)]

WithBadAt(articles, p, kind) ==
    [i \in 1..Len(articles) |-> IF i = p THEN BadArticle(i, kind) ELSE articles[i]]

\* responses made of well-formed articles only
GoodBodies ==
    {[status |-> "ok", totalResults |-> n, articles |-> GoodArticles(n, offset)] :
        n \in 0..MaxArticles, offset \in 0..1}

\* responses with one malformed article among the first five
BadBodies ==
    {[status |-> "ok", totalResults |-> 3,
      articles |-> WithBadAt(GoodArticles(3, 0), p, kind)] :
        p \in 1..2, kind \in BadKinds}

\* a malformed article behind the first five is never looked at
LateBadBodies ==
    {[status |-> "ok", totalResults |-> MaxArticles,
      articles |-> WithBadAt(GoodArticles(MaxArticles, 0), MaxArticles, kind)] :
        kind \in {"no_title", "bad_timestamp"}}

Outcomes ==
    {[kind |-> "raise", error |-> "HTTPSConnectionPool: Max retries exceeded"],
     [kind |-> "raise", error |-> "{'status': 'error', 'code': 'rateLimited'}"],
     [kind |-> "json", body |-> [status |-> "ok"]]}
    \cup {[kind |-> "json", body |-> b] : b \in GoodBodies \cup BadBodies \cup LateBadBodies}

\* the outcomes the interaction loop is explored with: each way of failing,
\* a short response and one longer than the five articles that are shown
LoopOutcomes ==
    {[kind |-> "raise", error |-> "HTTPSConnectionPool: Max retries exceeded"],
     [kind |-> "json", body |-> [status |-> "ok"]],
     [kind |-> "json", body |-> [status |-> "ok", totalResults |-> 3,
          articles |-> WithBadAt(GoodArticles(3, 0), 2, "no_title")]],
     [kind |-> "json", body |-> [status |-> "ok", totalResults |-> 3,
          articles |-> WithBadAt(GoodArticles(3, 0), 2, "bad_timestamp")]],
     [kind |-> "json", body |-> [status |-> "ok", totalResults |-> 2,
          articles |-> GoodArticles(2, 0)]],
     [kind |-> "json", body |-> [status |-> "ok", totalResults |-> MaxArticles,
          articles |-> GoodArticles(MaxArticles, 0)]]}

\* the outcome slot of a turn that makes no call
NoOutcome == [kind |-> "none"]

(***************************************************************************)
(* NewsChatbot.get_news                                                    *)
(***************************************************************************)
DefaultCount == 5

NotConfigured ==
    [kind |-> "text",
     text |-> "News API is not configured. Please set your News API key in the .env file."]

Apology(error) ==
    [kind |-> "apology",
     text |-> "Sorry, I couldn't fetch the news at the moment. Error: ",
     error |-> error]

Listing(entries) ==
    [kind |-> "listing",
     header |-> "Here are the latest news articles:",
     entries |-> entries]

NoCall == [api |-> "none"]

\* no get_news call and no template either: nothing was decided yet
NoRequest == [made |-> FALSE, pool |-> ""]

\* parser.parse(ts).strftime("%B %d, %Y")
parse_strftime(ts) ==
    CASE ts = "2024-01-05T10:00:00Z" -> [ok |-> TRUE, text |-> "January 05, 2024"]
      [] ts = "2023-12-31T23:59:59+00:00" -> [ok |-> TRUE, text |-> "December 31, 2023"]
      [] ts = "2024-02-29" -> [ok |-> TRUE, text |-> "February 29, 2024"]
      [] ts = NoneTimestamp ->
             [ok |-> FALSE, error |-> "Parser must be a string or character stream, not NoneType"]
      [] OTHER -> [ok |-> FALSE, error |-> "Unknown string format"]

\* the body of the formatting loop for one article, in evaluation order
FormatArticle(article) ==
    LET has(k) == k \in DOMAIN article
    IN IF ~has("publishedAt") THEN [ok |-> FALSE, error |-> "'publishedAt'"]
       ELSE LET date == parse_strftime(article.publishedAt)
            IN IF ~date.ok THEN [ok |-> FALSE, error |-> date.error]
               ELSE IF ~has("title") THEN [ok |-> FALSE, error |-> "'title'"]
               ELSE IF ~has("source") THEN [ok |-> FALSE, error |-> "'source'"]
               ELSE IF "name" \notin DOMAIN article.source
                    THEN [ok |-> FALSE, error |-> "'name'"]
               ELSE IF ~has("url") THEN [ok |-> FALSE, error |-> "'url'"]
               ELSE LET entry == [title |-> article.title,
                                  date |-> date.text,
                                  source |-> article.source.name,
                                  url |-> article.url]
                    IN [ok |-> TRUE,
                        entry |-> IF has("description") /\ Truthy(article.description)
                                  THEN entry @@ [description |-> article.description]
                                  ELSE entry]

\* a formatting loop that steps over an article it cannot format
RECURSIVE FormatArticles_skips_bad(_, _, _)
FormatArticles_skips_bad(articles, i, entries) ==
    IF i > Len(articles) THEN [ok |-> TRUE, entries |-> entries]
    ELSE LET r == FormatArticle(articles[i])
         IN FormatArticles_skips_bad(articles, i + 1,
                IF r.ok THEN Append(entries, r.entry) ELSE entries)

\* the formatting loop: the first article that raises ends it
RECURSIVE FormatArticles(_, _, _)
FormatArticles(articles, i, entries) ==
    IF i > Len(articles) THEN [ok |-> TRUE, entries |-> entries]
    ELSE LET r == FormatArticle(articles[i])
         IN IF r.ok THEN FormatArticles(articles, i + 1, Append(entries, r.entry))
            ELSE [ok |-> FALSE, error |-> r.error]

\* which client method get_news calls, with which arguments
ClientCall(query, category) ==
    IF Truthy(query)
    THEN [api |-> "get_everything", q |-> query,
          language |-> "en", sort_by |-> "publishedAt"]
    ELSE IF Truthy(category)
    THEN [api |-> "get_top_headlines", category |-> category,
          language |-> "en", country |-> "us"]
    ELSE [api |-> "get_top_headlines", language |-> "en", country |-> "us"]

\* get_news(query, category, count); outcome is what the client call does
get_news(self, query, category, count, outcome) ==
    IF self.news_api = NoClient
    THEN [response |-> NotConfigured, call |-> NoCall]
    ELSE LET call == ClientCall(query, category)
         IN IF outcome.kind = "raise"
            THEN [response |-> Apology(outcome.error), call |-> call]
            ELSE IF outcome.kind # "json" \/ "articles" \notin DOMAIN outcome.body
            THEN [response |-> Apology("'articles'"), call |-> call]
            ELSE LET r == FormatArticles(Take(outcome.body.articles, count), 1, <<>>)
                 IN [response |-> IF r.ok THEN Listing(r.entries) ELSE Apology(r.error),
                     call |-> call]

(***************************************************************************)
(* NewsChatbot.process_query                                               *)
(***************************************************************************)
Text(t) == [kind |-> "text", text |-> t]

\* random.choice(pool); pick is the number the generator draws
random_choice(pool, pick) == pool[(pick % Len(pool)) + 1]

\* next((cat for cat in self.categories.keys() if cat in input_lower), None),
\* and the same scan as the loop of the direct category check
found_category(self, input_lower) ==
    LET cats == self.categories
        hit(i) == Contains(input_lower, cats[i])
    IN IF \E i \in 1..Len(cats) : hit(i)
       THEN cats[CHOOSE i \in 1..Len(cats) : hit(i) /\ \A j \in 1..(i - 1) : ~hit(j)]
       ELSE None

\* a topic scan that takes the first entity whatever its label
first_topic_any_label(ents) == IF ents # <<>> THEN ents[1].text ELSE None

\* the loop over doc.ents: the text of the first ORG, GPE or PERSON entity
first_topic(ents) ==
    LET hit(i) == ents[i].label \in TopicLabels
    IN IF \E i \in 1..Len(ents) : hit(i)
       THEN ents[CHOOSE i \in 1..Len(ents) : hit(i) /\ \A j \in 1..(i - 1) : ~hit(j)].text
       ELSE None

\* return self.get_news(query=..., category=...)
NewsFor(query, category) == [made |-> TRUE, query |-> query, category |-> category]

\* return random.choice(self.responses[pool])
FromPool(pool) == [made |-> FALSE, pool |-> pool]

\* a news branch that prefers the topic to the category
news_branch_topic_first(self, input_lower, ents) ==
    LET category == found_category(self, input_lower)
        topic == first_topic(ents)
    IN IF Truthy(topic) THEN NewsFor(topic, None)
       ELSE IF Truthy(category) THEN NewsFor(None, category)
       ELSE NewsFor(None, None)

\* the branch taken when a news-trigger word is present
news_branch(self, input_lower, ents) ==
    LET category == found_category(self, input_lower)
        topic == first_topic(ents)
    IN IF Truthy(category) THEN NewsFor(None, category)
       ELSE IF Truthy(topic) THEN NewsFor(topic, None)
       ELSE NewsFor(None, None)

\* conversation patterns that answer thanks from the greeting pool
conversation_thanks_as_greeting(input_lower) ==
    IF AnyIn(GreetingWords, input_lower) THEN FromPool("greeting")
    ELSE IF AnyIn(GoodbyeWords, input_lower) THEN FromPool("goodbye")
    ELSE IF AnyIn(ThanksWords, input_lower) THEN FromPool("greeting")
    ELSE FromPool("default")

\* the conversation patterns and the default
conversation(input_lower) ==
    IF AnyIn(GreetingWords, input_lower) THEN FromPool("greeting")
    ELSE IF AnyIn(GoodbyeWords, input_lower) THEN FromPool("goodbye")
    ELSE IF AnyIn(ThanksWords, input_lower) THEN FromPool("thanks")
    ELSE FromPool("default")

\* a cascade that looks for a topic before it looks for a news keyword
classify_topic_ungated(self, user_input, ents) ==
    LET input_lower == lower(user_input)
    IN IF AnyIn(NewsTriggers, input_lower)
       THEN news_branch(self, input_lower, ents)
       ELSE IF Truthy(found_category(self, input_lower))
       THEN NewsFor(None, found_category(self, input_lower))
       ELSE IF Truthy(first_topic(ents)) THEN NewsFor(first_topic(ents), None)
       ELSE conversation(input_lower)

\* a cascade that checks the greeting words first
classify_greeting_first(self, user_input, ents) ==
    LET input_lower == lower(user_input)
    IN IF AnyIn(GreetingWords, input_lower) THEN FromPool("greeting")
       ELSE IF AnyIn(NewsTriggers, input_lower)
       THEN news_branch(self, input_lower, ents)
       ELSE IF Truthy(found_category(self, input_lower))
       THEN NewsFor(None, found_category(self, input_lower))
       ELSE conversation(input_lower)

\* the cascade of process_query: which return statement is reached
classify(self, user_input, ents) ==
    LET input_lower == lower(user_input)
    IN IF AnyIn(NewsTriggers, input_lower)
       THEN news_branch(self, input_lower, ents)
       ELSE IF Truthy(found_category(self, input_lower))
       THEN NewsFor(None, found_category(self, input_lower))
       ELSE conversation(input_lower)

\* a return that remembers the category it served by moving it to the front
respond_moves_category_to_front(self, decision, outcome, pick) ==
    IF decision.made
    THEN get_news(self, decision.query, decision.category, DefaultCount, outcome)
            @@ [self |->
                  IF Truthy(decision.category)
                  THEN [self EXCEPT !.categories =
                          <<decision.category>> \o
                          SelectSeq(self.categories, LAMBDA c : c # decision.category)]
                  ELSE self]
    ELSE [response |-> Text(random_choice(self.responses[decision.pool], pick)),
          call |-> NoCall,
          self |-> self]

\* the return statement reached: its value, the client call behind it and the
\* object it leaves behind
respond(self, decision, outcome, pick) ==
    IF decision.made
    THEN get_news(self, decision.query, decision.category, DefaultCount, outcome)
            @@ [self |-> self]
    ELSE [response |-> Text(random_choice(self.responses[decision.pool], pick)),
          call |-> NoCall,
          self |-> self]

\* the whole method
process_query(self, user_input, ents, outcome, pick) ==
    respond(self, classify(self, user_input, ents), outcome, pick)

(***************************************************************************)
(* The inputs of the model.                                                *)
(***************************************************************************)
w_Latest == <<"L","a","t","e","s","t">>
w_SPORTS == <<"S","P","O","R","T","S">>
w_this == <<"t","h","i","s">>
w_Tesla == <<"T","e","s","l","a">>
w_Paris == <<"P","a","r","i","s">>
w_Musk == <<"M","u","s","k">>
w_Quit == <<"Q","u","i","T">>
w_space == <<" ">>
w_latest_on_Tesla ==
    <<"l","a","t","e","s","t"," ","o","n"," ","T","e","s","l","a">>
w_sports_and_business_news ==
    <<"s","p","o","r","t","s"," ","a","n","d"," ",
      "b","u","s","i","n","e","s","s"," ","n","e","w","s">>

\* what a line is made of: every keyword of the program, in some casing, a
\* word that holds a keyword as a substring, three names, the exit word, a blank,
\* two phrases
Vocabulary ==
    {w_news, w_headlines, w_Latest, w_updates,
     w_business, w_entertainment, w_health, w_science, w_SPORTS, w_technology,
     w_hello, w_hi, w_hey, w_bye, w_goodbye, w_see_you,
     w_thanks, w_thank_you, w_appreciate,
     w_this, w_Tesla, w_Paris, w_Musk, w_Quit, w_space,
     w_latest_on_Tesla, w_sports_and_business_news}

\* what follows the first fragment of a line: one or two words of each kind
CoreVocabulary ==
    {w_news, w_business, w_SPORTS, w_hello, w_bye, w_thanks,
     w_this, w_Tesla, w_Paris, w_Quit, w_space}

SeqsUpTo(S, n) == UNION {[1..k -> S] : k \in 0..n}

RECURSIVE Concat(_)
Concat(ws) == IF ws = <<>> THEN <<>> ELSE Head(ws) \o Concat(Tail(ws))

\* the lines the user may type
Lines ==
    {<<>>} \cup
    {first \o Concat(rest) :
        first \in Vocabulary, rest \in SeqsUpTo(CoreVocabulary, MaxWords - 1)}

\* the labelled spans the extractor may find
Entities ==
    {[text |-> w_Tesla, label |-> "ORG"], [text |-> w_Tesla, label |-> "PRODUCT"],
     [text |-> w_Paris, label |-> "GPE"], [text |-> w_Paris, label |-> "PERSON"],
     [text |-> w_Musk, label |-> "PERSON"]}

\* doc.ents for a text: spans of that text, each name tagged at most once, in
\* any order the extractor gives
EntsFor(text) ==
    {ents \in SeqsUpTo({e \in Entities : Contains(text, e.text)}, MaxEnts) :
        \A i, j \in 1..Len(ents) : i # j => ents[i].text # ents[j].text}

(***************************************************************************)
(* main(): start-up and the interaction loop.                              *)
(*                                                                         *)
(* pc is the position of the program:                                      *)
(*   "start"        before NewsChatbot() is constructed                    *)
(*   "prompt"       blocked in input(), the prompt is on the screen        *)
(*   "process"      a line was read and is not the exit word               *)
(*   "print"        process_query returned, its result is not yet printed  *)
(*   "quit"         the loop was left by the exit word                     *)
(*   "interrupted"  KeyboardInterrupt was caught                           *)
(*   "failed"       another exception was caught at the top level          *)
(*   "exit1"        sys.exit(1) in the constructor                         *)
(*   "get_news"     (second specification) get_news is about to be called  *)
(*   "returned"     (second specification) get_news returned               *)
(***************************************************************************)
VARIABLES
    env_key,      \* NEWS_API_KEY in the environment
    pc,
    chatbot,      \* the NewsChatbot object
    line,         \* what input() returned last
    user_input,   \* the local of main(): the stripped line
    doc,          \* doc.ents in process_query for this line
    req,          \* the get_news call made for this line, if any
    call,         \* the client call made for this line, if any
    news,         \* what the client call did, if it was made
    response,     \* what process_query returned for this line
    out           \* what was printed since the last line was read

vars ==
    <<env_key, pc, chatbot, line, user_input, doc, req, call, news, response, out>>

KeyWarning == Text("Warning: Please set your News API key in the .env file")

Banner == Text("Type 'quit' to exit.")

Prompt == Text("You: ")

GoodbyeLine == Text("News Chatbot: Goodbye! Stay informed!")

InitError == Text("Please make sure all required packages are installed.")

Unexpected == Text("An unexpected error occurred: EOF when reading a line")

Nothing == [kind |-> "nothing"]

\* the numbers the random generator may draw
RandomDraws == 0..2

\* an exit test that looks for the word anywhere in the line
IsQuit_contains(text) == Contains(lower(text), w_quit)

\* the exit test of the loop, on the stripped line
IsQuit(text) == lower(text) = w_quit

Init ==
    /\ env_key \in ApiKeys
    /\ pc = "start"
    /\ chatbot = Unconstructed
    /\ line = <<>>
    /\ user_input = <<>>
    /\ doc = <<>>
    /\ req = NoRequest
    /\ call = NoCall
    /\ news = NoOutcome
    /\ response = Nothing
    /\ out = <<>>

\* chatbot = NewsChatbot(), the welcome banner and the first prompt
Startup ==
    /\ pc = "start"
    /\ \E model_loads \in BOOLEAN :
         LET r == NewsChatbot_init(model_loads, env_key)
         IN /\ chatbot' = r.self
            /\ pc' = IF r.ok THEN "prompt" ELSE "exit1"
            /\ out' = IF ~r.ok THEN <<InitError>>
                      ELSE IF r.warned THEN <<KeyWarning, Banner, Prompt>>
                      ELSE <<Banner, Prompt>>
    /\ UNCHANGED <<env_key, line, user_input, doc, req, call, news, response>>

\* user_input = input("\nYou: ").strip() and the exit test
ReadLine ==
    /\ pc = "prompt"
    /\ \E l \in Lines :
         /\ line' = l
         /\ user_input' = strip(l)
         /\ IF IsQuit(strip(l))
            THEN out' = <<GoodbyeLine>> /\ pc' = "quit"
            ELSE out' = <<>> /\ pc' = "process"
    /\ UNCHANGED <<env_key, chatbot, doc, req, call, news, response>>

\* response = chatbot.process_query(user_input)
ProcessQuery ==
    /\ pc = "process"
    /\ \E ents \in EntsFor(user_input) :
         LET decision == classify(chatbot, user_input, ents)
             calls == decision.made /\ chatbot.news_api # NoClient
         IN \E outcome \in (IF calls THEN LoopOutcomes ELSE {NoOutcome}),
               pick \in (IF decision.made THEN {0} ELSE RandomDraws) :
              LET r == respond(chatbot, decision, outcome, pick)
              IN /\ doc' = ents
                 /\ chatbot' = r.self
                 /\ req' = decision
                 /\ call' = r.call
                 /\ news' = outcome
                 /\ response' = r.response
    /\ pc' = "print"
    /\ UNCHANGED <<env_key, line, user_input, out>>

\* print("\nNews Chatbot:", response), then the next prompt.  The locals of
\* the turn are dead from here on (input() overwrites user_input before it is
\* read again), so the model drops them with the turn's record.
PrintResponse ==
    /\ pc = "print"
    /\ out' = <<response, Prompt>>
    /\ pc' = "prompt"
    /\ line' = <<>>
    /\ user_input' = <<>>
    /\ doc' = <<>>
    /\ req' = NoRequest
    /\ call' = NoCall
    /\ news' = NoOutcome
    /\ response' = Nothing
    /\ UNCHANGED <<env_key, chatbot>>

\* KeyboardInterrupt anywhere in the loop; the program is over and its locals
\* with it
Interrupt ==
    /\ pc \in {"prompt", "process", "print"}
    /\ out' = Append(out, GoodbyeLine)
    /\ pc' = "interrupted"
    /\ line' = <<>>
    /\ user_input' = <<>>
    /\ doc' = <<>>
    /\ req' = NoRequest
    /\ call' = NoCall
    /\ news' = NoOutcome
    /\ response' = Nothing
    /\ UNCHANGED <<env_key, chatbot>>

\* input() raises EOFError at the end of standard input
EndOfInput ==
    /\ pc = "prompt"
    /\ out' = Append(out, Unexpected)
    /\ pc' = "failed"
    /\ line' = <<>>
    /\ user_input' = <<>>
    /\ doc' = <<>>
    /\ req' = NoRequest
    /\ call' = NoCall
    /\ news' = NoOutcome
    /\ response' = Nothing
    /\ UNCHANGED <<env_key, chatbot>>

Next ==
    \/ Startup
    \/ ReadLine
    \/ ProcessQuery
    \/ PrintResponse
    \/ Interrupt
    \/ EndOfInput

Spec == Init /\ [][Next]_vars

(***************************************************************************)
(* Second specification: get_news on its own, called with every shape of   *)
(* arguments and every response of the service the model knows.            *)
(***************************************************************************)
Requests ==
    {[made |-> TRUE, query |-> q, category |-> c] :
        q \in {None, <<>>, w_Tesla}, c \in {None, w_business, w_technology}}

InitNews ==
    /\ env_key \in ApiKeys
    /\ pc = "get_news"
    /\ chatbot = NewsChatbot_init(TRUE, env_key).self
    /\ line = <<>>
    /\ user_input = <<>>
    /\ doc = <<>>
    /\ req \in Requests
    /\ call = NoCall
    /\ news = NoOutcome
    /\ response = Nothing
    /\ out = <<>>

\* self.get_news(query=..., category=...)
GetNews ==
    /\ pc = "get_news"
    /\ \E outcome \in (IF chatbot.news_api = NoClient THEN {NoOutcome} ELSE Outcomes) :
         LET r == get_news(chatbot, req.query, req.category, DefaultCount, outcome)
         IN /\ call' = r.call
            /\ news' = outcome
            /\ response' = r.response
    /\ pc' = "returned"
    /\ UNCHANGED <<env_key, chatbot, line, user_input, doc, req, out>>

NextNews == GetNews

SpecNews == InitNews /\ [][NextNews]_vars

(***************************************************************************)
(* Properties.  They are stated on the input and on what was observed of   *)
(* the turn (the get_news call, the client call, the response, the         *)
(* output), not on the operators that model process_query.                 *)
(***************************************************************************)
InputHas(word) == Contains(lower(user_input), word)

HasAny(words) == \E w \in words : InputHas(w)

HasTrigger == HasAny({w_news, w_headlines, w_latest, w_updates})

HasCategory == \E i \in 1..Len(Categories) : InputHas(Categories[i])

HasGreeting == HasAny({w_hello, w_hi, w_hey})

HasFarewell == HasAny({w_bye, w_goodbye, w_see_you})

HasThanks == HasAny({w_thanks, w_thank_you, w_appreciate})

MinOf(S) == CHOOSE x \in S : \A y \in S : x <= y

\* the first category, in the fixed order, that occurs in the input
FirstCategoryPresent ==
    Categories[MinOf({i \in 1..Len(Categories) : InputHas(Categories[i])})]

\* the positions of the organization, place and person entities
TopicalIndexes == {i \in 1..Len(doc) : doc[i].label \in {"ORG", "GPE", "PERSON"}}

PoolTexts(pool) == {Text(Responses[pool][i]) : i \in 1..Len(Responses[pool])}

AllPoolTexts == UNION {PoolTexts(p) : p \in {"greeting", "goodbye", "thanks", "default"}}

CategoryCall(c) ==
    [api |-> "get_top_headlines", category |-> c, language |-> "en", country |-> "us"]

TopicCall(t) ==
    [api |-> "get_everything", q |-> t, language |-> "en", sort_by |-> "publishedAt"]

HeadlinesCall == [api |-> "get_top_headlines", language |-> "en", country |-> "us"]

Configured == chatbot.news_api # NoClient

\* C1: an input that contains a category keyword, with or without a news
\* keyword and whatever the entities, is answered by a category lookup for the
\* first category of the fixed order that occurs in it, never by a topic lookup.
C1_CategoryLookup ==
    (pc = "print" /\ HasCategory) =>
        /\ req = [made |-> TRUE, query |-> None, category |-> FirstCategoryPresent]
        /\ call \in {NoCall, CategoryCall(FirstCategoryPresent)}
        /\ Configured => call # NoCall

C1_Witness ==
    /\ pc = "print"
    /\ HasTrigger
    /\ InputHas(w_sports)
    /\ InputHas(w_business)
    /\ \E i \in 1..Len(doc) : doc[i].label = "ORG"
    /\ call = CategoryCall(w_business)

\* C2: an input with a news keyword and no category keyword is answered by a
\* free-text lookup for the text of the first ORG, GPE or PERSON entity, other
\* labels being skipped, and by unfiltered top headlines when there is none.
C2_TopicLookup ==
    (pc = "print" /\ HasTrigger /\ ~HasCategory) =>
        /\ IF TopicalIndexes # {}
           THEN LET first == doc[MinOf(TopicalIndexes)].text
                IN /\ req = [made |-> TRUE, query |-> first, category |-> None]
                   /\ call \in {NoCall, TopicCall(first)}
           ELSE /\ req = [made |-> TRUE, query |-> None, category |-> None]
                /\ call \in {NoCall, HeadlinesCall}
        /\ Configured => call # NoCall

C2_Witness ==
    /\ pc = "print"
    /\ HasTrigger
    /\ ~HasCategory
    /\ Len(doc) = 2
    /\ doc[1].label = "PRODUCT"
    /\ doc[1].text # doc[2].text
    /\ call = TopicCall(doc[2].text)

\* C3: an input with neither a news keyword nor a category keyword never leads
\* to a news lookup, whatever the entities; it is answered from a template
\* pool, the default one when no conversational keyword matches.
C3_KeywordGate ==
    (pc = "print" /\ ~HasTrigger /\ ~HasCategory) =>
        /\ ~req.made
        /\ call = NoCall
        /\ news = NoOutcome
        /\ response \in AllPoolTexts
        /\ (~HasGreeting /\ ~HasFarewell /\ ~HasThanks) => response \in PoolTexts("default")

C3_Witness ==
    /\ pc = "print"
    /\ ~HasTrigger
    /\ ~HasCategory
    /\ \E i \in 1..Len(doc) : doc[i].label = "ORG"
    /\ response \in PoolTexts("default")

\* C4: an input with conversational keywords only is answered from exactly one
\* of the greeting, goodbye and thanks pools, and from a pool whose keywords it
\* contains: "thanks" is never answered from the greeting pool.
C4_ConversationPools ==
    (pc = "print" /\ ~HasTrigger /\ ~HasCategory
        /\ (HasGreeting \/ HasFarewell \/ HasThanks)) =>
        /\ Cardinality({p \in {"greeting", "goodbye", "thanks", "default"} :
                            response \in PoolTexts(p)}) = 1
        /\ response \notin PoolTexts("default")
        /\ response \in PoolTexts("greeting") => HasGreeting
        /\ response \in PoolTexts("goodbye") => HasFarewell
        /\ response \in PoolTexts("thanks") => HasThanks

C4_Witness ==
    /\ pc = "print"
    /\ lower(user_input) = w_thanks
    /\ response \in PoolTexts("thanks")

\* the object a real credential gives
ConfiguredBot == NewsChatbot_init(TRUE, "0123456789abcdef").self

\* C5: with the credential unset, empty or the placeholder, the program starts,
\* every news query (by news keyword or by category keyword) returns the fixed
\* "not configured" message without a client call, and every other input is
\* answered as it is with a credential.
C5_NoCredential ==
    (env_key \in {NoKey, "", PlaceholderKey}) =>
        /\ pc \notin {"start", "exit1"} => chatbot.constructed /\ ~Configured
        /\ (pc = "print" /\ (HasTrigger \/ HasCategory)) =>
              response = NotConfigured /\ call = NoCall /\ news = NoOutcome
        /\ (pc = "print" /\ ~(HasTrigger \/ HasCategory)) =>
              response \in {process_query(ConfiguredBot, user_input, doc, NoOutcome, p).response :
                               p \in RandomDraws}

C5_Witness ==
    /\ env_key = PlaceholderKey
    /\ pc = "print"
    /\ HasCategory
    /\ ~HasTrigger
    /\ response = NotConfigured
    /\ call = NoCall

ParseableTimestamps ==
    {"2024-01-05T10:00:00Z", "2023-12-31T23:59:59+00:00", "2024-02-29"}

\* an article the formatter cannot render
Malformed(a) ==
    \/ {"title", "url", "publishedAt", "source"} \ (DOMAIN a) # {}
    \/ "name" \notin DOMAIN a.source
    \/ a.publishedAt \notin ParseableTimestamps

HasArticles == news.kind = "json" /\ "articles" \in DOMAIN news.body

\* how many of the received articles are shown
Shown == IF Len(news.body.articles) < 5 THEN Len(news.body.articles) ELSE 5

\* the client call was made and it, or the formatting of what it returned, failed
LookupFailed ==
    /\ call # NoCall
    /\ \/ news.kind = "raise"
       \/ news.kind = "json" /\ "articles" \notin DOMAIN news.body
       \/ HasArticles /\ \E i \in 1..Shown : Malformed(news.body.articles[i])

C6_Apology ==
    (pc = "print" /\ LookupFailed) =>
        /\ DOMAIN response = {"kind", "text", "error"}
        /\ response.kind = "apology"
        /\ response.text = "Sorry, I couldn't fetch the news at the moment. Error: "
        /\ news.kind = "raise" => response.error = news.error

\* C6: a failure of the news lookup or of the formatting of its response ends
\* in the apology string with the failure's description and nothing else; the
\* loop prints it and prompts for the next line; only the end of input takes
\* the program to its top-level handler.
C6_FailureContained ==
    /\ []C6_Apology
    /\ [][pc = "print" =>
            \/ pc' = "interrupted"
            \/ pc' = "prompt" /\ out' = <<response, Prompt>>]_vars
    /\ [](pc = "failed" => out[Len(out)] = Unexpected)

C6_Witness ==
    /\ pc = "prompt"
    /\ out = <<Apology("'title'"), Prompt>>

HasDescription(a) ==
    "description" \in DOMAIN a /\ a.description # None /\ a.description # <<>>

\* C7: a lookup that returns n well-formed articles is rendered as the first
\* min(n, 5) of them, in order, each with its title, source name and URL, and
\* with its description exactly when it has a non-empty one.
C7_Listing ==
    (pc = "returned" /\ call # NoCall /\ HasArticles
        /\ \A i \in 1..Len(news.body.articles) : ~Malformed(news.body.articles[i])) =>
        /\ response.kind = "listing"
        /\ Len(response.entries) = Shown
        /\ \A i \in 1..Shown :
              LET a == news.body.articles[i]
                  e == response.entries[i]
              IN /\ e.title = a.title
                 /\ e.source = a.source.name
                 /\ e.url = a.url
                 /\ ("description" \in DOMAIN e) <=> HasDescription(a)
                 /\ HasDescription(a) => e.description = a.description

C7_Witness ==
    /\ pc = "returned"
    /\ HasArticles
    /\ Len(news.body.articles) = 5
    /\ response.kind = "listing"
    /\ Len(response.entries) = 5
    /\ \E i \in 1..5 : "description" \in DOMAIN response.entries[i]
    /\ \E i \in 1..5 : "description" \notin DOMAIN response.entries[i]
    /\ response.entries[5].url = news.body.articles[5].url

\* a line that is the exit word once blanks are trimmed and case is folded
IsExitLine(l) ==
    \E a \in 0..Len(l) :
        /\ a + 4 <= Len(l)
        /\ \A i \in 1..a : l[i] \in {" ", "\t"}
        /\ \A i \in (a + 5)..Len(l) : l[i] \in {" ", "\t"}
        /\ l[a + 1] \in {"q", "Q"}
        /\ l[a + 2] \in {"u", "U"}
        /\ l[a + 3] \in {"i", "I"}
        /\ l[a + 4] \in {"t", "T"}

\* C8: a line that is "quit" after trimming and case folding ends the loop with
\* the goodbye line, is never processed and is the last line read; every other
\* line is processed and exactly one response is printed before the next
\* prompt.
C8_QuitEndsLoop ==
    /\ [][(pc = "prompt" /\ pc' \in {"process", "quit"}) =>
            IF IsExitLine(line')
            THEN /\ pc' = "quit"
                 /\ out' = <<GoodbyeLine>>
                 /\ response' = Nothing
                 /\ req' = NoRequest
                 /\ call' = NoCall
            ELSE pc' = "process"]_vars
    /\ [][pc # "quit"]_vars
    /\ [][pc = "process" =>
            \/ pc' = "interrupted"
            \/ pc' = "print" /\ response' # Nothing /\ out' = <<>>]_vars
    /\ [][pc = "print" =>
            \/ pc' = "interrupted"
            \/ pc' = "prompt" /\ out' = <<response, Prompt>>]_vars

C8_Witness ==
    /\ pc = "quit"
    /\ line = w_space \o w_Quit
    /\ out = <<GoodbyeLine>>
    /\ response = Nothing

\* C9: the steps are tried in the order news keyword, category keyword,
\* greeting, farewell, thanks, default, and the first that matches decides
\* alone: "news" with "hello" is a news lookup, a greeting with a farewell is a
\* greeting.
C9_FirstMatchWins ==
    pc = "print" =>
        IF HasTrigger THEN req.made /\ response \notin AllPoolTexts
        ELSE IF HasCategory
        THEN req.made /\ req.category = FirstCategoryPresent /\ response \notin AllPoolTexts
        ELSE IF HasGreeting THEN ~req.made /\ response \in PoolTexts("greeting")
        ELSE IF HasFarewell THEN ~req.made /\ response \in PoolTexts("goodbye")
        ELSE IF HasThanks THEN ~req.made /\ response \in PoolTexts("thanks")
        ELSE ~req.made /\ response \in PoolTexts("default")

C9_Witness ==
    /\ pc = "print"
    /\ InputHas(w_news)
    /\ InputHas(w_hello)
    /\ req.made
    /\ response \notin AllPoolTexts

\* C10: no step after construction changes the category set, the template
\* pools or the client configuration, so what is asked for an input is what a
\* freshly constructed object would ask for it.
C10_NoStateAcrossTurns ==
    /\ [][pc # "start" => chatbot' = chatbot]_vars
    /\ [](chatbot.constructed =>
            /\ chatbot.categories = Categories
            /\ chatbot.responses = Responses
            /\ Configured <=> env_key \notin {NoKey, "", PlaceholderKey})
    /\ [](pc = "print" =>
            req = classify(NewsChatbot_init(TRUE, env_key).self, user_input, doc))

C10_Witness ==
    /\ pc = "prompt"
    /\ Len(out) = 2
    /\ out[1].kind = "apology"
    /\ chatbot.categories = Categories
    /\ chatbot.responses = Responses
    /\ Configured

====
